---- MODULE Spec2Model ----
(***************************************************************************)
(* State-machine model of function_app.py: the MedicalDataProcessor        *)
(* (lazy client setup, SQL generation and sanitizing, the read-only guard, *)
(* query execution, sample fetch, upload) and the Azure Functions handlers *)
(* that call it.                                                           *)
(*                                                                         *)
(* Text is modelled as a sequence of one-character strings, so that the    *)
(* string operations of the code (strip, upper, startswith, re.sub) are    *)
(* computed character by character.  A Python Optional is a sequence of    *)
(* length 0 (None) or 1 (the value).                                       *)
(***************************************************************************)
EXTENDS Integers, Sequences, FiniteSets, TLC

(***************************************************************************)
(* Bounds of the model.                                                    *)
(***************************************************************************)
\* Largest number of documents the modelled container holds.
MaxStore == 2
\* Largest number of collaborator faults (token, completion, store) injected
\* in one behaviour.
MaxFaults == 1
\* Largest number of text pieces concatenated into a sanitizer input.
MaxPieces == 6
\* Largest number of records in an uploaded batch.
MaxBatch == 2

(***************************************************************************)
(* Python values.                                                          *)
(***************************************************************************)
None == << >>

Some(x) == <<x>>

(***************************************************************************)
(* Text helpers: str.strip, str.upper, str.startswith, str(int), re.sub.   *)
(***************************************************************************)
\* The characters str.strip() removes (the ASCII whitespace the model uses).
Whitespace == {" ", "\n", "\t", "\r"}

\* str.upper() on one character: ASCII letters only.
UpperOf ==
    [a |-> "A", b |-> "B", c |-> "C", d |-> "D", e |-> "E", f |-> "F",
     g |-> "G", h |-> "H", i |-> "I", j |-> "J", k |-> "K", l |-> "L",
     m |-> "M", n |-> "N", o |-> "O", p |-> "P", q |-> "Q", r |-> "R",
     s |-> "S", t |-> "T", u |-> "U", v |-> "V", w |-> "W", x |-> "X",
     y |-> "Y", z |-> "Z"]

upper(s) ==
    [i \in 1..Len(s) |-> IF s[i] \in DOMAIN UpperOf THEN UpperOf[s[i]] ELSE s[i]]

RECURSIVE lstrip(_)
lstrip(s) ==
    IF s # << >> /\ Head(s) \in Whitespace THEN lstrip(Tail(s)) ELSE s

RECURSIVE rstrip(_)
rstrip(s) ==
    IF s # << >> /\ s[Len(s)] \in Whitespace
    THEN rstrip(SubSeq(s, 1, Len(s) - 1))
    ELSE s

strip(s) == rstrip(lstrip(s))

startswith(s, prefix) ==
    /\ Len(s) >= Len(prefix)
    /\ SubSeq(s, 1, Len(prefix)) = prefix

\* str(n) of an integer, as the f-string of get_sample_data formats it.
DigitChar == <<"0", "1", "2", "3", "4", "5", "6", "7", "8", "9">>

RECURSIVE str_nat(_)
str_nat(n) ==
    IF n < 10 THEN <<DigitChar[n + 1]>>
    ELSE str_nat(n \div 10) \o <<DigitChar[(n % 10) + 1]>>

str_int(n) == IF n < 0 THEN <<"-">> \o str_nat(-n) ELSE str_nat(n)

\* re.sub with count=1: only the leftmost match is removed.
RECURSIVE re_sub_first(_, _)
re_sub_first(pat, s) ==
    IF s = << >> THEN << >>
    ELSE IF startswith(s, pat)
    THEN LET rest == SubSeq(s, Len(pat) + 1, Len(s))
         IN  IF rest # << >> /\ Head(rest) = "\n" THEN Tail(rest) ELSE rest
    ELSE <<Head(s)>> \o re_sub_first(pat, Tail(s))

\* re.sub(pat + r'\n?', '', s) for a literal pat: every non-overlapping match,
\* found leftmost first, is removed together with one newline that follows it.
RECURSIVE re_sub_remove(_, _)
re_sub_remove(pat, s) ==
    IF s = << >> THEN << >>
    ELSE IF startswith(s, pat)
    THEN LET rest == SubSeq(s, Len(pat) + 1, Len(s))
         IN  IF rest # << >> /\ Head(rest) = "\n"
             THEN re_sub_remove(pat, Tail(rest))
             ELSE re_sub_remove(pat, rest)
    ELSE <<Head(s)>> \o re_sub_remove(pat, Tail(s))

\* The backtick character (a string literal cannot hold one).
BT == "BACKTICK"

\* The literal part of the pattern r'```sql\n?' (line 247).
FENCE_SQL == <<BT, BT, BT, "s", "q", "l">>

\* The literal part of the pattern r'```\n?' (line 248).
FENCE == <<BT, BT, BT>>

SELECT_KW == <<"S","E","L","E","C","T">>

(***************************************************************************)
(* generate_sql_query, lines 244-249: the clean-up of the completion text. *)
(***************************************************************************)
sanitize(content) ==
    strip(re_sub_remove(FENCE, re_sub_remove(FENCE_SQL, strip(content))))

(***************************************************************************)
(* execute_query, line 275: the read-only guard.                           *)
(***************************************************************************)
\* A guard that looks for the keyword anywhere in the text.
guard_contains_select(sql_query) ==
    LET t == upper(strip(sql_query))
    IN  \E k \in 1..Len(t) : startswith(SubSeq(t, k, Len(t)), SELECT_KW)

guard_passes(sql_query) == startswith(upper(strip(sql_query)), SELECT_KW)


(***************************************************************************)
(* State.                                                                  *)
(***************************************************************************)
VARIABLES
    env,        \* which of the endpoint environment variables are set
    processor,  \* the global MedicalDataProcessor instance (line 412)
    store,      \* number of documents held by the Cosmos DB container
    faults,     \* collaborator faults injected so far
    calls,      \* the handler invocations in flight, one record per slot
    san         \* harness applying the sanitizer to enumerated texts

vars == <<env, processor, store, faults, calls, san>>

\* The slots of the handler invocations in flight: two at a time, the fewest
\* that interleave at the awaits.
Calls == {1, 2}

\* A client object built by a setup step.
Handle == Some("client")

\* A document returned by container.query_items.
Row == "doc"

\* datetime.utcnow().isoformat()
utcnow == "utcnow"

(***************************************************************************)
(* Exceptions: a class and the text str(e) gives.                          *)
(***************************************************************************)
Exc(type, msg) == [type |-> type, msg |-> msg]

\* The classes raised in the model; each is a subclass of Exception.
ExceptionClasses ==
    {"ValueError", "RuntimeError", "AttributeError", "JSONDecodeError",
     "ClientAuthenticationError", "APIError", "CosmosHttpResponseError"}

MissingCosmosEndpoint ==
    Exc("ValueError", "Missing required environment variable: COSMOS_ENDPOINT")

MissingOpenAIEndpoint ==
    Exc("ValueError", "Missing required environment variable: AZURE_OPENAI_ENDPOINT")

OpenAINotInitialized ==
    Exc("RuntimeError", "OpenAI client not properly initialized")

ContainerNotInitialized ==
    Exc("RuntimeError", "Cosmos DB container not properly initialized")

OnlySelectAllowed == Exc("ValueError", "Only SELECT queries are allowed")

TokenFailure == Exc("ClientAuthenticationError", "credential unavailable")

CompletionFailure == Exc("APIError", "completion unavailable")

NoContent ==
    Exc("AttributeError", "'NoneType' object has no attribute 'strip'")

StoreFailure == Exc("CosmosHttpResponseError", "store request failed")

(***************************************************************************)
(* A call slot.                                                            *)
(***************************************************************************)
IdleCall ==
    [op |-> "none", pc |-> "idle", fn |-> "none", request |-> None,
     query |-> << >>, sql_query |-> None, items |-> << >>,
     limit |-> 0, records |-> << >>, i |-> 0, uploaded_count |-> 0,
     errors |-> << >>,
     cosmos_status |-> "",
     qlog |-> << >>, n_setup |-> 0, n_create |-> 0, n_query |-> 0,
     pipeline |-> "not_run", response |-> None]


\* The handler returns: the slot keeps the response until it is reused.
Finish(call, resp) == [call EXCEPT !.pc = "done", !.response = Some(resp)]

\* An exception no handler caught leaves the function.
Escape(call, e) ==
    [call EXCEPT !.pc = "done", !.response = Some([raised |-> e])]

Min(a, b) == IF a < b THEN a ELSE b

Max(a, b) == IF a > b THEN a ELSE b

(***************************************************************************)
(* process_natural_language_query (lines 293-329).                         *)
(***************************************************************************)
\* A success outcome whose row_count is not taken from the rows.
process_return_no_count(query, sql_query, results) ==
    [natural_language_query |-> query,
     generated_sql |-> Some(sql_query),
     results |-> Some(results),
     row_count |-> 0,
     success |-> TRUE,
     error |-> None,
     timestamp |-> Some(utcnow)]

\* The success outcome, lines 310-317.
process_return(query, sql_query, results) ==
    [natural_language_query |-> query,
     generated_sql |-> Some(sql_query),
     results |-> Some(results),
     row_count |-> Len(results),
     success |-> TRUE,
     error |-> None,
     timestamp |-> Some(utcnow)]

\* A failure outcome that carries an empty row list instead of None.
process_except_empty_rows(query, e) ==
    [natural_language_query |-> query,
     generated_sql |-> None,
     results |-> Some(<< >>),
     row_count |-> 0,
     success |-> FALSE,
     error |-> Some(e.msg),
     timestamp |-> Some(utcnow)]

\* A failure outcome that reports the caller's text as the generated query.
process_except_query_as_sql(query, e) ==
    [natural_language_query |-> query,
     generated_sql |-> Some(query),
     results |-> None,
     row_count |-> 0,
     success |-> FALSE,
     error |-> Some(e.msg),
     timestamp |-> Some(utcnow)]

\* The failure outcome, lines 321-329.
process_except(query, e) ==
    [natural_language_query |-> query,
     generated_sql |-> None,
     results |-> None,
     row_count |-> 0,
     success |-> FALSE,
     error |-> Some(e.msg),
     timestamp |-> Some(utcnow)]

\* "except ValueError as e": a handler that catches the guard's error only.
process_catches_value_error(e) == e.type = "ValueError"

\* "except Exception as e" (line 319): the classes the handler catches.
process_catches(e) == e.type \in ExceptionClasses

(***************************************************************************)
(* The responses of the handlers.                                          *)
(***************************************************************************)
\* "except Exception as e" of a handler (lines 483, 553, 594, 654, 706, 756).
handler_catches(e) == e.type \in ExceptionClasses

\* The summary of mcp_text_to_sql, lines 531-548: the rows shown and the
\* count of the rows only summarized.
mcp_summary(result) ==
    [shown |-> Min(result.row_count, 5),
     more |-> Max(result.row_count - 5, 0)]

\* http_text_to_sql lines 477-481, mcp_text_to_sql lines 529-551.
text_to_sql_response(op, result) ==
    IF op = "http_text_to_sql"
    THEN [status |-> IF result.success THEN 200 ELSE 500, body |-> result]
    ELSE [status |-> 0,
          body |-> IF result.success
                   THEN [summary |-> mcp_summary(result)] @@ result
                   ELSE result]

\* The outer except clauses of the handlers.
handler_except(op, e) ==
    CASE op = "mcp_text_to_sql" ->
            [status |-> 0,
             body |-> [error |-> Some("Error processing query: " \o e.msg),
                       success |-> FALSE, timestamp |-> Some(utcnow)]]
      [] op = "initialize_sample_data" ->
            [status |-> 0, body |-> [logged |-> Some(e.msg)]]
      [] op = "http_health_check" ->
            [status |-> 500,
             body |-> [status |-> "unhealthy", error |-> Some(e.msg),
                       timestamp |-> Some(utcnow)]]
      [] OTHER ->
            [status |-> 500,
             body |-> [error |-> Some("Internal server error: " \o e.msg),
                       success |-> FALSE, timestamp |-> Some(utcnow)]]

\* An exception reaches the handler's own try block.
handler_raise(call, e) ==
    IF handler_catches(e)
    THEN Finish(call, handler_except(call.op, e))
    ELSE Escape(call, e)

\* http_health_check, lines 676-696, once cosmos_status is known.
health_response(cosmos_status, proc) ==
    LET openai_status ==
            IF proc.openai_client # None THEN "healthy" ELSE "not initialized"
    IN  [status |-> 200,
         body |-> [status |-> IF cosmos_status = "healthy"
                                  /\ openai_status = "healthy"
                               THEN "healthy" ELSE "degraded",
                   cosmos_db |-> cosmos_status,
                   azure_openai |-> openai_status,
                   timestamp |-> Some(utcnow),
                   service |-> "medical-data-text-to-sql"]]

\* Propagation with one more attempt at the completion when it fails.
Raise_retry(call, e, proc) ==
    CASE call.op \in {"http_text_to_sql", "mcp_text_to_sql"} ->
            IF e = CompletionFailure /\ call.n_create < 2
            THEN [call EXCEPT !.pc = "create", !.n_create = @ + 1]
            ELSE IF process_catches(e)
            THEN Finish([call EXCEPT !.pipeline = "returned"],
                        text_to_sql_response(call.op,
                                             process_except(call.query, e)))
            ELSE handler_raise([call EXCEPT !.pipeline = "raised"], e)
      [] call.op = "http_health_check" /\ call.fn = "get_sample_data" ->
            IF handler_catches(e)
            THEN Finish([call EXCEPT !.cosmos_status = "unhealthy: " \o e.msg],
                        health_response("unhealthy: " \o e.msg, proc))
            ELSE handler_raise(call, e)
      [] OTHER -> handler_raise(call, e)

\* An exception e raised inside a processor method propagates to the first
\* enclosing try block of the call.
Raise(call, e, proc) ==
    CASE call.op \in {"http_text_to_sql", "mcp_text_to_sql"} ->
            IF process_catches(e)
            THEN Finish([call EXCEPT !.pipeline = "returned"],
                        text_to_sql_response(call.op,
                                             process_except(call.query, e)))
            ELSE handler_raise([call EXCEPT !.pipeline = "raised"], e)
      [] call.op = "http_health_check" /\ call.fn = "get_sample_data" ->
            IF handler_catches(e)
            THEN Finish([call EXCEPT !.cosmos_status = "unhealthy: " \o e.msg],
                        health_response("unhealthy: " \o e.msg, proc))
            ELSE handler_raise(call, e)
      [] OTHER -> handler_raise(call, e)


(***************************************************************************)
(* The processor's methods, from the point where _ensure_initialized has   *)
(* returned.  Each gives the call's next record; proc is the processor as  *)
(* the step leaves it.                                                     *)
(***************************************************************************)
Total(st) == st.seed + st.user

\* container.query_items(query=...) is called: the query text reaches the store.
query_items(call, query) ==
    [call EXCEPT !.pc = "query_items", !.items = << >>,
                 !.qlog = Append(@, query), !.n_query = @ + 1]

\* generate_sql_query, lines 206-242, up to the awaited completion call.
generate_sql_query_body(call, proc) ==
    IF proc.openai_client = None
    THEN Raise(call, OpenAINotInitialized, proc)
    ELSE [call EXCEPT !.pc = "create", !.n_create = @ + 1]

\* execute_query without the check of line 275.
execute_query_body_unguarded(call, proc) ==
    IF proc.container = None
    THEN Raise(call, ContainerNotInitialized, proc)
    ELSE query_items(call, call.sql_query[1])

\* execute_query, lines 270-283, up to the first awaited row.
execute_query_body(call, proc) ==
    IF proc.container = None
    THEN Raise(call, ContainerNotInitialized, proc)
    ELSE IF ~ guard_passes(call.sql_query[1])
    THEN Raise(call, OnlySelectAllowed, proc)
    ELSE query_items(call, call.sql_query[1])

\* The f-string of line 347.
sample_query(limit) ==
    <<"S","E","L","E","C","T"," ","T","O","P"," ">> \o str_int(limit)
    \o <<" ","*"," ","F","R","O","M"," ","c"," ","O","R","D","E","R"," ",
         "B","Y"," ","c",".","M","E","D","C","o","d","e">>

\* get_sample_data, lines 343-352, up to the first awaited row.
get_sample_data_body(call, proc) ==
    IF proc.container = None
    THEN Raise(call, ContainerNotInitialized, proc)
    ELSE query_items(call, sample_query(call.limit))

RequiredFields == {"MEDCode", "Slot", "Value"}

\* The record set of initialize_sample_data, lines 736-750: thirteen records,
\* each with the three required fields.
sample_records == [n \in 1..13 |-> [keys |-> RequiredFields]]

\* upload_medical_records, lines 403-409, and what its caller does with it
\* (http_upload_medical_data lines 646-652, initialize_sample_data line 754).
upload_return(call) ==
    LET result == [uploaded_count |-> call.uploaded_count,
                   total_records |-> Len(call.records),
                   errors |-> call.errors,
                   success |-> call.uploaded_count > 0,
                   timestamp |-> Some(utcnow)]
    IN  IF call.op = "initialize_sample_data"
        THEN Finish(call, [status |-> 0,
                           body |-> [seeded |-> result.uploaded_count]])
        ELSE Finish(call, [status |-> 200, body |-> result])

\* The loop with "break" for the "continue" of line 385.
upload_loop_break(call) ==
    IF call.i >= Len(call.records)
    THEN upload_return(call)
    ELSE IF ~ (RequiredFields \subseteq call.records[call.i + 1].keys)
    THEN upload_return([call EXCEPT
             !.errors = Append(@, [index |-> call.i, kind |-> "missing"]),
             !.i = @ + 1])
    ELSE [call EXCEPT !.pc = "create_item"]

\* The loop of upload_medical_records, lines 380-401, from record i up to the
\* next awaited create_item or the end of the list.
RECURSIVE upload_loop(_)
upload_loop(call) ==
    IF call.i >= Len(call.records)
    THEN upload_return(call)
    ELSE IF ~ (RequiredFields \subseteq call.records[call.i + 1].keys)
    THEN upload_loop([call EXCEPT
             !.errors = Append(@, [index |-> call.i, kind |-> "missing"]),
             !.i = @ + 1])
    ELSE [call EXCEPT !.pc = "create_item"]

\* upload_medical_records, lines 374-378.
upload_medical_records_body(call, proc) ==
    IF proc.container = None
    THEN Raise(call, ContainerNotInitialized, proc)
    ELSE upload_loop([call EXCEPT !.uploaded_count = 0, !.errors = << >>,
                                  !.i = 0])

after_ensure(call, proc) ==
    CASE call.fn = "generate_sql_query" -> generate_sql_query_body(call, proc)
      [] call.fn = "execute_query" -> execute_query_body(call, proc)
      [] call.fn = "get_sample_data" -> get_sample_data_body(call, proc)
      [] call.fn = "upload_medical_records" ->
            upload_medical_records_body(call, proc)

\* A processor method is entered: its first statement awaits
\* _ensure_initialized.
enter(call, fn) == [call EXCEPT !.fn = fn, !.pc = "ensure"]

\* execute_query returned its rows to process_natural_language_query.
execute_query_return(call) ==
    Finish([call EXCEPT !.pipeline = "returned"],
           text_to_sql_response(call.op,
               process_return(call.query, call.sql_query[1], call.items)))

\* get_sample_data returned its rows to its caller (http_get_sample_data
\* lines 579-592, http_health_check lines 676-696, initialize_sample_data
\* lines 731-753).
get_sample_data_return(call, proc) ==
    CASE call.op = "http_get_sample_data" ->
            Finish(call, [status |-> 200,
                          body |-> [sample_data |-> call.items,
                                    count |-> Len(call.items),
                                    success |-> TRUE,
                                    timestamp |-> Some(utcnow)]])
      [] call.op = "http_health_check" ->
            Finish([call EXCEPT !.cosmos_status = "healthy"],
                   health_response("healthy", proc))
      [] call.op = "initialize_sample_data" ->
            IF call.items # << >>
            THEN Finish(call, [status |-> 0, body |-> [skipped |-> TRUE]])
            ELSE enter([call EXCEPT !.records = sample_records],
                       "upload_medical_records")


(***************************************************************************)
(* Inputs.                                                                 *)
(***************************************************************************)
\* The "query" values a request may carry: JSON null, a number other than 0,
\* or a string (empty, whitespace only, or a question with blanks around it).
QueryValues ==
    {[t |-> "null", v |-> << >>], [t |-> "int", v |-> << >>],
     [t |-> "str", v |-> << >>], [t |-> "str", v |-> <<" ", "\n">>],
     [t |-> "str", v |-> <<" ", "q", " ">>]}

\* Request payloads of the text-to-sql entry points: not JSON, an empty
\* object, an object without "query", an object with "query".
Requests ==
    {[json |-> j, query |-> [t |-> "null", v |-> << >>]] :
        j \in {"invalid", "empty", "no_query"}}
    \cup {[json |-> "query", query |-> q] : q \in QueryValues}

\* The texts the completion service answers with.
Completions ==
    {<<"S","E","L","E","C","T"," ","*"," ","F","R","O","M"," ","c">>,
     <<"s","e","l","e","c","t"," ","*"," ","f","r","o","m"," ","c">>,
     <<BT,BT,BT,"s","q","l","\n","S","E","L","E","C","T"," ","*"," ",
       "F","R","O","M"," ","c","\n",BT,BT,BT>>,
     <<BT,BT,BT,"S","Q","L","\n","S","E","L","E","C","T"," ","*"," ",
       "F","R","O","M"," ","c","\n",BT,BT,BT>>,
     <<"D","E","L","E","T","E"," ","F","R","O","M"," ","c">>,
     <<BT,BT,BT,"\n","D","E","L","E","T","E"," ","F","R","O","M"," ","c",
       "\n",BT,BT,BT>>,
     <<"D","R","O","P"," ","c",";"," ","S","E","L","E","C","T"," ","1">>,
     <<"S","E","L","E","C","T","E","D"," ","F","R","O","M"," ","c">>,
     <<" ","\n">>,
     << >>}

(***************************************************************************)
(* Entry of the handlers.                                                  *)
(***************************************************************************)
\* process_natural_language_query is called with the stripped query text;
\* its first statement awaits generate_sql_query.
process_natural_language_query(call, query) ==
    enter([call EXCEPT !.query = query, !.pipeline = "running"],
          "generate_sql_query")

\* http_text_to_sql with "if not query:" for the test of line 464.
http_text_to_sql_start_no_strip(req) ==
    LET call == [IdleCall EXCEPT !.op = "http_text_to_sql",
                                 !.request = Some(req)]
        missing == [status |-> 400,
                    body |-> [error |-> Some("Missing 'query' field in request body")]]
        empty == [status |-> 400,
                  body |-> [error |-> Some("Query cannot be empty")]]
    IN  CASE req.json = "invalid" ->
                handler_raise(call, Exc("ValueError",
                    "HTTP request does not contain valid JSON data"))
          [] req.json \in {"empty", "no_query"} -> Finish(call, missing)
          [] req.query.t = "null" -> Finish(call, empty)
          [] req.query.t = "int" ->
                handler_raise(call, Exc("AttributeError",
                    "'int' object has no attribute 'strip'"))
          [] OTHER ->
                IF req.query.v = << >>
                THEN Finish(call, empty)
                ELSE process_natural_language_query(call, strip(req.query.v))

\* http_text_to_sql, lines 455-472.
http_text_to_sql_start(req) ==
    LET call == [IdleCall EXCEPT !.op = "http_text_to_sql",
                                 !.request = Some(req)]
        missing == [status |-> 400,
                    body |-> [error |-> Some("Missing 'query' field in request body")]]
        empty == [status |-> 400,
                  body |-> [error |-> Some("Query cannot be empty")]]
    IN  CASE req.json = "invalid" ->
                handler_raise(call, Exc("ValueError",
                    "HTTP request does not contain valid JSON data"))
          [] req.json \in {"empty", "no_query"} -> Finish(call, missing)
          [] req.query.t = "null" -> Finish(call, empty)
          [] req.query.t = "int" ->
                handler_raise(call, Exc("AttributeError",
                    "'int' object has no attribute 'strip'"))
          [] OTHER ->
                IF req.query.v = << >> \/ strip(req.query.v) = << >>
                THEN Finish(call, empty)
                ELSE process_natural_language_query(call, strip(req.query.v))

\* mcp_text_to_sql, lines 515-526.
mcp_text_to_sql_start(req) ==
    LET call == [IdleCall EXCEPT !.op = "mcp_text_to_sql",
                                 !.request = Some(req)]
        required == [status |-> 0,
                     body |-> [error |-> Some("Query parameter is required and cannot be empty"),
                               success |-> FALSE]]
    IN  CASE req.json = "invalid" ->
                handler_raise(call, Exc("JSONDecodeError",
                    "Expecting value: line 1 column 1 (char 0)"))
          [] req.json \in {"empty", "no_query"} -> Finish(call, required)
          [] req.query.t = "null" ->
                handler_raise(call, Exc("AttributeError",
                    "'NoneType' object has no attribute 'strip'"))
          [] req.query.t = "int" ->
                handler_raise(call, Exc("AttributeError",
                    "'int' object has no attribute 'strip'"))
          [] OTHER ->
                IF strip(req.query.v) = << >>
                THEN Finish(call, required)
                ELSE process_natural_language_query(call, strip(req.query.v))


\* The "limit" parameter of the sample-data request: absent, or a text that
\* int() parses to the number given, or a text int() rejects.
LimitParams ==
    {[given |-> FALSE, int |-> None], [given |-> TRUE, int |-> None]}
    \cup {[given |-> TRUE, int |-> Some(n)] : n \in {0, 1, 5, 100, 1000}}

\* Line 574 without max(limit, 1).
clamp_limit_no_floor(limit) == Min(limit, 100)

\* limit = min(max(limit, 1), 100), line 574.
clamp_limit(limit) == Min(Max(limit, 1), 100)

\* http_get_sample_data, lines 573-577.
http_get_sample_data_start(param) ==
    LET call == [IdleCall EXCEPT !.op = "http_get_sample_data",
                                 !.request = Some(param)]
    IN  IF param.given /\ param.int = None
        THEN handler_raise(call, Exc("ValueError",
                 "invalid literal for int() with base 10"))
        ELSE LET limit == IF param.given THEN param.int[1] ELSE 10
             IN  enter([call EXCEPT !.limit = clamp_limit(limit)],
                       "get_sample_data")

\* The records of an upload request: with every required field, or without
\* "Value".
UploadRecords == {[keys |-> RequiredFields], [keys |-> {"MEDCode", "Slot"}]}

\* The payloads of the upload request: not JSON, no "records" field, a
\* "records" that is no list, or a list of records.
UploadRequests ==
    {[json |-> j, records |-> << >>] : j \in {"invalid", "no_records", "not_list"}}
    \cup {[json |-> "records", records |-> r] :
            r \in UNION {[1..n -> UploadRecords] : n \in 0..MaxBatch}}

\* http_upload_medical_data, lines 627-644.
http_upload_medical_data_start(req) ==
    LET call == [IdleCall EXCEPT !.op = "http_upload_medical_data"]
    IN  CASE req.json = "invalid" ->
                handler_raise(call, Exc("ValueError",
                    "HTTP request does not contain valid JSON data"))
          [] req.json = "no_records" ->
                Finish(call, [status |-> 400,
                    body |-> [error |-> Some("Missing 'records' field in request body")]])
          [] req.json = "not_list" ->
                Finish(call, [status |-> 400,
                    body |-> [error |-> Some("'records' must be an array")]])
          [] OTHER ->
                enter([call EXCEPT !.records = req.records],
                      "upload_medical_records")

(***************************************************************************)
(* Initial state: the module has been imported (line 412).                 *)
(***************************************************************************)
SanIdle == [pc |-> "idle", x |-> << >>, parts |-> None,
            once |-> << >>, twice |-> << >>]

NewProcessor ==
    [cosmos_client |-> None, database |-> None, container |-> None,
     openai_client |-> None, _initialized |-> FALSE]

Init ==
    /\ env \in [COSMOS_ENDPOINT : BOOLEAN, AZURE_OPENAI_ENDPOINT : BOOLEAN]
    /\ processor = NewProcessor
    /\ store = [seed |-> 0, user |-> 0]
    /\ faults = 0
    /\ calls = [c \in Calls |-> IdleCall]
    /\ san = SanIdle

(***************************************************************************)
(* Actions.  A handler runs from one awaited collaborator call to the      *)
(* next without interruption; the calls in flight interleave at the awaits.*)
(***************************************************************************)
\* The host starts a handler in a free slot (the lowest one: the slots are
\* interchangeable).
Free(c) ==
    /\ calls[c].pc = "idle"
    /\ \A d \in Calls : d < c => calls[d].pc # "idle"

Shared == <<env, processor, store, faults, san>>

http_text_to_sql(c) ==
    /\ Free(c)
    /\ \E req \in Requests :
          calls' = [calls EXCEPT ![c] = http_text_to_sql_start(req)]
    /\ UNCHANGED Shared

mcp_text_to_sql(c) ==
    /\ Free(c)
    /\ \E req \in Requests :
          calls' = [calls EXCEPT ![c] = mcp_text_to_sql_start(req)]
    /\ UNCHANGED Shared

http_get_sample_data(c) ==
    /\ Free(c)
    /\ \E param \in LimitParams :
          calls' = [calls EXCEPT ![c] = http_get_sample_data_start(param)]
    /\ UNCHANGED Shared

http_upload_medical_data(c) ==
    /\ Free(c)
    /\ \E req \in UploadRequests :
          calls' = [calls EXCEPT ![c] = http_upload_medical_data_start(req)]
    /\ UNCHANGED Shared

\* http_health_check, line 675.
http_health_check(c) ==
    /\ Free(c)
    /\ calls' = [calls EXCEPT ![c] =
          enter([IdleCall EXCEPT !.op = "http_health_check", !.limit = 1],
                "get_sample_data")]
    /\ UNCHANGED Shared

\* initialize_sample_data, line 730.
initialize_sample_data(c) ==
    /\ Free(c)
    /\ calls' = [calls EXCEPT ![c] =
          enter([IdleCall EXCEPT !.op = "initialize_sample_data", !.limit = 1],
                "get_sample_data")]
    /\ UNCHANGED Shared

\* _ensure_initialized with line 113 moved before the awaits of lines
\* 111-112.
_ensure_initialized_flag_first(c) ==
    LET call == calls[c]
        ran == [call EXCEPT !.n_setup = @ + 1]
        proc0 == [processor EXCEPT !._initialized = TRUE]
        proc1 == [proc0 EXCEPT !.cosmos_client = Handle,
                               !.database = Handle,
                               !.container = Handle]
    IN  /\ call.pc = "ensure"
        /\ IF processor._initialized
           THEN /\ processor' = processor
                /\ calls' = [calls EXCEPT ![c] = after_ensure(call, processor)]
           ELSE IF ~ env.COSMOS_ENDPOINT
           THEN /\ processor' = proc0
                /\ calls' = [calls EXCEPT ![c] =
                      Raise(ran, MissingCosmosEndpoint, proc0)]
           ELSE /\ processor' = proc1
                /\ calls' = [calls EXCEPT ![c] =
                      IF ~ env.AZURE_OPENAI_ENDPOINT
                      THEN Raise(ran, MissingOpenAIEndpoint, proc1)
                      ELSE [ran EXCEPT !.pc = "get_token"]]
        /\ UNCHANGED <<env, store, faults, san>>

\* _ensure_initialized (lines 108-113) with _setup_cosmos_client (115-136)
\* and _setup_openai_client up to the awaited get_token (138-149).
_ensure_initialized(c) ==
    LET call == calls[c]
        ran == [call EXCEPT !.n_setup = @ + 1]
        proc1 == [processor EXCEPT !.cosmos_client = Handle,
                                   !.database = Handle,
                                   !.container = Handle]
    IN  /\ call.pc = "ensure"
        /\ IF processor._initialized
           THEN /\ processor' = processor
                /\ calls' = [calls EXCEPT ![c] = after_ensure(call, processor)]
           ELSE IF ~ env.COSMOS_ENDPOINT
           THEN /\ processor' = processor
                /\ calls' = [calls EXCEPT ![c] =
                      Raise(ran, MissingCosmosEndpoint, processor)]
           ELSE /\ processor' = proc1
                /\ calls' = [calls EXCEPT ![c] =
                      IF ~ env.AZURE_OPENAI_ENDPOINT
                      THEN Raise(ran, MissingOpenAIEndpoint, proc1)
                      ELSE [ran EXCEPT !.pc = "get_token"]]
        /\ UNCHANGED <<env, store, faults, san>>

\* credential.get_token returns: _setup_openai_client lines 151-157, then
\* _ensure_initialized line 113, then the method that awaited it.
get_token_returns(c) ==
    LET proc1 == [processor EXCEPT !.openai_client = Handle,
                                   !._initialized = TRUE]
    IN  /\ calls[c].pc = "get_token"
        /\ processor' = proc1
        /\ calls' = [calls EXCEPT ![c] = after_ensure(calls[c], proc1)]
        /\ UNCHANGED <<env, store, faults, san>>

\* credential.get_token raises: lines 159-161.
get_token_fails(c) ==
    /\ calls[c].pc = "get_token"
    /\ faults < MaxFaults
    /\ faults' = faults + 1
    /\ calls' = [calls EXCEPT ![c] = Raise(calls[c], TokenFailure, processor)]
    /\ UNCHANGED <<env, processor, store, san>>

\* chat.completions.create returns a candidate: generate_sql_query lines
\* 244-252, then process_natural_language_query line 308.
completion_returns(c) ==
    /\ calls[c].pc = "create"
    /\ \E content \in Completions :
          calls' = [calls EXCEPT ![c] =
              enter([calls[c] EXCEPT !.sql_query = Some(sanitize(content))],
                    "execute_query")]
    /\ UNCHANGED Shared

\* chat.completions.create raises, or its candidate has no content (line 244
\* then raises): generate_sql_query lines 254-256.
completion_fails(c) ==
    /\ calls[c].pc = "create"
    /\ faults < MaxFaults
    /\ faults' = faults + 1
    /\ \E e \in {CompletionFailure, NoContent} :
          calls' = [calls EXCEPT ![c] = Raise(calls[c], e, processor)]
    /\ UNCHANGED <<env, processor, store, san>>

\* The query iterator yields one more document (lines 280-284, 349-353).
query_items_next(c) ==
    /\ calls[c].pc = "query_items"
    /\ Len(calls[c].items) < Total(store)
    /\ calls[c].fn = "get_sample_data" => Len(calls[c].items) < calls[c].limit
    /\ calls' = [calls EXCEPT ![c].items = Append(@, Row)]
    /\ UNCHANGED Shared

\* The query iterator is exhausted: the method returns its items.
query_items_end(c) ==
    /\ calls[c].pc = "query_items"
    /\ calls[c].fn = "get_sample_data" =>
          Len(calls[c].items) = Min(calls[c].limit, Total(store))
    /\ calls' = [calls EXCEPT ![c] =
          IF calls[c].fn = "execute_query"
          THEN execute_query_return(calls[c])
          ELSE get_sample_data_return(calls[c], processor)]
    /\ UNCHANGED Shared

\* The query iterator raises (lines 289-291, 358-360).
query_items_fails(c) ==
    /\ calls[c].pc = "query_items"
    /\ faults < MaxFaults
    /\ faults' = faults + 1
    /\ calls' = [calls EXCEPT ![c] = Raise(calls[c], StoreFailure, processor)]
    /\ UNCHANGED <<env, processor, store, san>>

\* container.create_item returns: lines 397-398, then the loop goes on.
create_item_returns(c) ==
    /\ calls[c].pc = "create_item"
    /\ Total(store) < MaxStore
    /\ store' = IF calls[c].op = "initialize_sample_data"
                THEN [store EXCEPT !.seed = @ + 1]
                ELSE [store EXCEPT !.user = @ + 1]
    /\ calls' = [calls EXCEPT ![c] =
          upload_loop([calls[c] EXCEPT !.uploaded_count = @ + 1, !.i = @ + 1])]
    /\ UNCHANGED <<env, processor, faults, san>>

\* container.create_item raises: lines 400-401, then the loop goes on.
create_item_fails(c) ==
    /\ calls[c].pc = "create_item"
    /\ faults < MaxFaults
    /\ faults' = faults + 1
    /\ calls' = [calls EXCEPT ![c] =
          upload_loop([calls[c] EXCEPT
              !.errors = Append(@, [index |-> calls[c].i, kind |-> StoreFailure.msg]),
              !.i = @ + 1])]
    /\ UNCHANGED <<env, processor, store, san>>

\* The host has taken the response: the slot is free again.
Respond(c) ==
    /\ calls[c].pc = "done"
    /\ calls' = [calls EXCEPT ![c] = IdleCall]
    /\ UNCHANGED Shared

Next ==
    \E c \in Calls :
        \/ http_text_to_sql(c)
        \/ mcp_text_to_sql(c)
        \/ http_get_sample_data(c)
        \/ http_upload_medical_data(c)
        \/ http_health_check(c)
        \/ initialize_sample_data(c)
        \/ _ensure_initialized(c)
        \/ get_token_returns(c)
        \/ get_token_fails(c)
        \/ completion_returns(c)
        \/ completion_fails(c)
        \/ query_items_next(c)
        \/ query_items_end(c)
        \/ query_items_fails(c)
        \/ create_item_returns(c)
        \/ create_item_fails(c)
        \/ Respond(c)

Spec == Init /\ [][Next]_vars


(***************************************************************************)
(* The sanitizer applied to enumerated texts: once, then to its own result.*)
(***************************************************************************)
RECURSIVE concat(_)
concat(ps) == IF ps = << >> THEN << >> ELSE Head(ps) \o concat(Tail(ps))

\* The pieces candidate texts are built from: a backtick, a fence marker,
\* the language tag, a newline, a blank, a letter.
Pieces == {<<BT>>, FENCE, <<"s","q","l">>, <<"\n">>, <<" ">>, <<"S">>}

PieceTexts ==
    {concat(ps) : ps \in UNION {[1..n -> Pieces] : n \in 0..MaxPieces}}

\* Language tags a fenced block may carry (none, sql, SQL, json).
Tags == {<< >>, <<"s","q","l">>, <<"S","Q","L">>, <<"j","s","o","n">>}

\* Interior content of a fenced block.
Interiors ==
    {<<"S","E","L","E","C","T"," ","*"," ","F","R","O","M"," ","c"," ",
       "W","H","E","R","E"," ","c",".","M","E","D","C","o","d","e"," ",
       "="," ","1","3","0","2">>,
     <<" ","S","E","L","E","C","T"," ","1"," ">>,
     <<"S","E","L","E","C","T"," ","c",".","V","a","l","u","e","\n",
       "F","R","O","M"," ","c">>}

\* A fenced block: the fence marker with its tag on the first line, the
\* interior, the fence marker on the last line.
Fenced(tag, interior) ==
    FENCE \o tag \o <<"\n">> \o interior \o <<"\n">> \o FENCE

SanInputs ==
    {[x |-> t, parts |-> None] : t \in PieceTexts}
    \cup {[x |-> Fenced(tag, interior),
           parts |-> Some([tag |-> tag, interior |-> interior])] :
            tag \in Tags, interior \in Interiors}

SanInit ==
    /\ env = [COSMOS_ENDPOINT |-> TRUE, AZURE_OPENAI_ENDPOINT |-> TRUE]
    /\ processor = NewProcessor
    /\ store = [seed |-> 0, user |-> 0]
    /\ faults = 0
    /\ calls = [c \in Calls |-> IdleCall]
    /\ san \in {[pc |-> "input", x |-> inp.x, parts |-> inp.parts,
                 once |-> << >>, twice |-> << >>] : inp \in SanInputs}

sanitize_once ==
    /\ san.pc = "input"
    /\ san' = [san EXCEPT !.pc = "once", !.once = sanitize(san.x)]
    /\ UNCHANGED <<env, processor, store, faults, calls>>

sanitize_twice ==
    /\ san.pc = "once"
    /\ san' = [san EXCEPT !.pc = "twice", !.twice = sanitize(san.once)]
    /\ UNCHANGED <<env, processor, store, faults, calls>>

SanNext == sanitize_once \/ sanitize_twice

SpecSanitize == SanInit /\ [][SanNext]_vars


(***************************************************************************)
(* Notions the properties are stated with.                                 *)
(***************************************************************************)
TextToSqlOps == {"http_text_to_sql", "mcp_text_to_sql"}

\* The first token of a text: its characters after the leading whitespace,
\* up to the next whitespace.
RECURSIVE TakeToken(_)
TakeToken(s) ==
    IF s = << >> \/ Head(s) \in Whitespace THEN << >>
    ELSE <<Head(s)>> \o TakeToken(Tail(s))

FirstTokenIsSelect(s) == upper(TakeToken(lstrip(s))) = SELECT_KW

\* The text begins with SELECT after its leading whitespace, in any case.
BeginsWithSelect(s) ==
    LET t == upper(lstrip(s))
    IN  Len(t) >= 6 /\ SubSeq(t, 1, 6) = <<"S","E","L","E","C","T">>

\* The call has returned and its response is the outcome that
\* process_natural_language_query returned.
HasOutcome(c) ==
    /\ calls[c].op \in TextToSqlOps
    /\ calls[c].pc = "done"
    /\ calls[c].pipeline = "returned"

OutcomeOf(c) == calls[c].response[1].body

\* The request carries no query text: the field is missing, or it is an
\* empty or whitespace-only string.
NoQueryText(req) ==
    \/ req.json \in {"empty", "no_query"}
    \/ req.json = "query" /\ req.query.t = "str" /\ strip(req.query.v) = << >>


(***************************************************************************)
(* Properties.                                                             *)
(***************************************************************************)
\* C1: for every sanitized text that execute_query has decided on, the guard
\* let it through to the store if and only if its first token, compared
\* case-insensitively, is exactly SELECT; every other text was rejected with
\* the 'Only SELECT queries are allowed' error.
C1_GuardIffFirstTokenSelect ==
    \A c \in Calls :
        (/\ calls[c].op \in TextToSqlOps
         /\ calls[c].fn = "execute_query"
         /\ calls[c].pc \in {"query_items", "done"})
        => LET sql == calls[c].sql_query[1]
           IN  /\ (calls[c].n_query = 1) <=> FirstTokenIsSelect(sql)
               /\ ~ FirstTokenIsSelect(sql) =>
                    /\ HasOutcome(c)
                    /\ OutcomeOf(c).error = Some("Only SELECT queries are allowed")

C3_EveryStoreQueryBeginsWithSelect ==
    \A c \in Calls :
        /\ Len(calls[c].qlog) = calls[c].n_query
        /\ \A k \in 1..Len(calls[c].qlog) : BeginsWithSelect(calls[c].qlog[k])

\* C3 witness: a generated query and the seed's existence check are both at
\* the store.
C3_Witness ==
    \E c, d \in Calls :
        /\ calls[c].op = "mcp_text_to_sql"
        /\ calls[c].pc = "query_items"
        /\ calls[c].qlog = <<calls[c].sql_query[1]>>
        /\ calls[d].op = "initialize_sample_data"
        /\ calls[d].pc = "query_items"
        /\ Len(calls[d].qlog) = 1


\* C4: the sanitizer is idempotent: applied to its own result it changes
\* nothing; and a text that is already clean (no fence marker, no surrounding
\* whitespace) is returned unchanged.
C4_SanitizeIdempotent ==
    /\ san.pc = "twice" => san.twice = san.once
    /\ (/\ san.pc \in {"once", "twice"}
        /\ strip(san.x) = san.x
        /\ \A k \in 1..Len(san.x) : ~ startswith(SubSeq(san.x, k, Len(san.x)), FENCE))
       => san.once = san.x

\* C4 witness: the text `, ```sql, `` has been sanitized twice; removing the
\* tagged marker joins its neighbours into a fence marker.
C4_Witness ==
    /\ san.pc = "twice"
    /\ san.x = <<BT, BT, BT, BT, "s", "q", "l", BT, BT>>
    /\ re_sub_remove(FENCE_SQL, san.x) = FENCE
    /\ san.once = << >>

\* C5: for a text made of a fence marker with an optional language tag, the
\* interior and a closing fence marker, the sanitizer returns exactly the
\* interior with its surrounding whitespace trimmed.
C5_FencedBlockGivesInterior ==
    (san.pc \in {"once", "twice"} /\ san.parts # None)
    => san.once = strip(san.parts[1].interior)

\* C6: in every outcome of process_natural_language_query, success holds if
\* and only if generated_sql is present, no error is present and row_count
\* is the length of results.
C6_SuccessIffComplete ==
    \A c \in Calls :
        HasOutcome(c) =>
            LET r == OutcomeOf(c)
            IN  r.success <=> (/\ r.generated_sql # None
                               /\ r.error = None
                               /\ r.results # None
                               /\ r.row_count = Len(r.results[1]))

\* C6 witness: a successful outcome with at least one row.
C6_Witness ==
    \E c \in Calls :
        /\ HasOutcome(c)
        /\ OutcomeOf(c).success
        /\ OutcomeOf(c).row_count >= 1

\* C7: every outcome with success = FALSE has results absent and
\* row_count = 0, whichever stage failed.
C7_FailureHasNoRows ==
    \A c \in Calls :
        (HasOutcome(c) /\ ~ OutcomeOf(c).success)
        => /\ OutcomeOf(c).results = None
           /\ OutcomeOf(c).row_count = 0

\* C7 witness: the store query failed after a row had been read.
C7_Witness ==
    \E c \in Calls :
        /\ HasOutcome(c)
        /\ ~ OutcomeOf(c).success
        /\ OutcomeOf(c).error = Some(StoreFailure.msg)
        /\ Len(calls[c].items) >= 1

\* C8: a failed outcome carries the sanitized query text when the failure
\* came after that text existed (guard or store), and no query text when it
\* came before (initialization or completion).
C8_FailureKeepsSanitizedText ==
    \A c \in Calls :
        (HasOutcome(c) /\ ~ OutcomeOf(c).success)
        => OutcomeOf(c).generated_sql = calls[c].sql_query

\* C8, as the code has it: a failed outcome never carries a query text, also
\* when the failure came after the sanitized text existed.
C8_FailureDropsQueryText ==
    \A c \in Calls :
        (HasOutcome(c) /\ ~ OutcomeOf(c).success)
        => OutcomeOf(c).generated_sql = None

\* C8 witness: the guard rejected a sanitized text, and the outcome has no
\* query text.
C8_Witness ==
    \E c \in Calls :
        /\ HasOutcome(c)
        /\ ~ OutcomeOf(c).success
        /\ calls[c].sql_query # None
        /\ calls[c].sql_query[1] # << >>
        /\ OutcomeOf(c).error = Some("Only SELECT queries are allowed")
        /\ OutcomeOf(c).generated_sql = None

\* C9: no exception leaves process_natural_language_query: every call that
\* entered it and has returned got an outcome from it, and a failed outcome
\* has success = FALSE, an error message and a timestamp.
C9_FaultsBecomeOutcomes ==
    \A c \in Calls :
        calls[c].op \in TextToSqlOps =>
            /\ calls[c].pipeline # "raised"
            /\ (calls[c].pc = "done" /\ calls[c].pipeline # "not_run") =>
                  /\ HasOutcome(c)
                  /\ "raised" \notin DOMAIN calls[c].response[1]
                  /\ "natural_language_query" \in DOMAIN OutcomeOf(c)
                  /\ OutcomeOf(c).timestamp # None
                  /\ OutcomeOf(c).success \/
                        (/\ OutcomeOf(c).error # None
                         /\ OutcomeOf(c).error[1] # "")

\* C9 witness: the completion call failed and the call returned a failed
\* outcome naming it.
C9_Witness ==
    \E c \in Calls :
        /\ HasOutcome(c)
        /\ ~ OutcomeOf(c).success
        /\ OutcomeOf(c).error = Some(CompletionFailure.msg)
        /\ calls[c].n_create = 1

\* C10: on both entry points a request without query text (missing, empty
\* or whitespace-only) is rejected as invalid input at once: no client
\* setup, no completion call, no store call.
C10_NoQueryTextRejected ==
    \A c \in Calls :
        (/\ calls[c].op \in TextToSqlOps
         /\ NoQueryText(calls[c].request[1]))
        => /\ calls[c].pc = "done"
           /\ calls[c].pipeline = "not_run"
           /\ calls[c].n_setup = 0
           /\ calls[c].n_create = 0
           /\ calls[c].n_query = 0
           /\ "error" \in DOMAIN OutcomeOf(c)
           /\ OutcomeOf(c).error # None
           /\ calls[c].op = "http_text_to_sql" => calls[c].response[1].status = 400

\* C10 witness: each entry point has rejected a whitespace-only query.
C10_Witness ==
    \E c, d \in Calls :
        /\ calls[c].op = "http_text_to_sql"
        /\ calls[d].op = "mcp_text_to_sql"
        /\ \A e \in {c, d} :
              /\ calls[e].pc = "done"
              /\ calls[e].request[1].query = [t |-> "str", v |-> <<" ", "\n">>]

(***************************************************************************)
(* Bulk upload.                                                            *)
(***************************************************************************)
UploadOps == {"http_upload_medical_data", "initialize_sample_data"}

\* The call is inside upload_medical_records, or has its summary.
InUpload(call) == call.op \in UploadOps /\ call.fn = "upload_medical_records"

\* The indexes (from 0) of the records of a batch that miss a required field.
MissingIndexes(records) ==
    {k \in 0..(Len(records) - 1) : ~ (RequiredFields \subseteq records[k + 1].keys)}

\* The error list has one entry per index, in the order of the records.
OnePerRecord(errors) ==
    \A a, b \in 1..Len(errors) : a < b => errors[a].index < errors[b].index

\* C11: upload_medical_records handles every record on its own.  While the
\* loop is suspended at record i, and when it has returned (i = total), every
\* record before i is counted exactly once, as uploaded or as one error: the
\* records that miss MEDCode, Slot or Value each have one "missing" error, a
\* create_item that failed has one error carrying the failure's text, and
\* uploaded_count + len(errors) is the number of records handled.  The summary
\* of a finished upload reports total_records = len(records), so there
\* uploaded_count + len(errors) = total_records.
C11_EveryRecordCountedOnce ==
    \A c \in Calls :
        LET call == calls[c]
            handled == IF call.pc = "done" THEN Len(call.records) ELSE call.i
            missing == {k \in MissingIndexes(call.records) : k < handled}
        IN  (InUpload(call) /\ call.pc \in {"create_item", "done"}
             /\ (call.pc = "done" => call.response[1].status \in {0, 200}
                                     /\ "logged" \notin DOMAIN call.response[1].body))
            => /\ call.uploaded_count + Len(call.errors) = handled
               /\ OnePerRecord(call.errors)
               /\ \A k \in missing :
                     \E a \in 1..Len(call.errors) :
                        call.errors[a] = [index |-> k, kind |-> "missing"]
               /\ \A a \in 1..Len(call.errors) :
                     /\ call.errors[a].index < handled
                     /\ call.errors[a].kind = "missing"
                            <=> call.errors[a].index \in missing
               /\ (call.op = "http_upload_medical_data" /\ call.pc = "done")
                  => LET body == call.response[1].body
                     IN  /\ body.total_records = Len(call.records)
                         /\ body.uploaded_count + Len(body.errors)
                               = body.total_records
                         /\ body.uploaded_count = call.uploaded_count
                         /\ body.errors = call.errors
                         /\ body.success <=> body.uploaded_count > 0

\* A batch of two whose first record misses a field and whose second is
\* stored: one error, uploaded_count = total_records - 1.
C11_Witness ==
    \E c \in Calls :
        /\ calls[c].op = "http_upload_medical_data"
        /\ calls[c].pc = "done"
        /\ calls[c].fn = "upload_medical_records"
        /\ Len(calls[c].records) = 2
        /\ MissingIndexes(calls[c].records) = {0}
        /\ calls[c].response[1].status = 200
        /\ calls[c].response[1].body.uploaded_count = 1
        /\ Len(calls[c].response[1].body.errors) = 1

(***************************************************************************)
(* Sample data.                                                            *)
(***************************************************************************)
\* The limit the sample-data request asks for, brought into 1..100.
EffectiveLimit(param) ==
    IF ~ param.given THEN 10
    ELSE IF param.int[1] < 1 THEN 1
    ELSE IF param.int[1] > 100 THEN 100
    ELSE param.int[1]

\* The integers the clamp is tabulated on: both ends of 1..100 and beyond.
LimitValues == (-3)..103 \cup {-1000, 1000}

\* The clamp of line 574, tabulated.
ClampTable ==
    \A n \in LimitValues :
        clamp_limit(n) = EffectiveLimit([given |-> TRUE, int |-> Some(n)])

\* C12: for every integer limit the limit handed to get_sample_data, and
\* written into the TOP clause of the query the store receives, is the
\* requested one brought into [1, 100]: below 1 gives 1, above 100 gives 100,
\* a value in range is kept, and an absent limit gives 10.  No more rows than
\* that are returned.
C12_LimitClamped ==
    /\ ClampTable
    /\ \A c \in Calls :
          LET call == calls[c]
          IN  (call.op = "http_get_sample_data" /\ call.fn = "get_sample_data")
              => LET limit == EffectiveLimit(call.request[1])
                 IN  /\ call.limit = limit
                     /\ limit \in 1..100
                     /\ \A k \in 1..Len(call.qlog) :
                           call.qlog[k] = sample_query(limit)
                     /\ Len(call.items) <= limit

\* A request for 1000 rows and one for 0 rows have queried the store, with
\* TOP 100 and TOP 1.
C12_Witness ==
    \E c, d \in Calls :
        /\ calls[c].op = "http_get_sample_data"
        /\ calls[c].request = Some([given |-> TRUE, int |-> Some(1000)])
        /\ calls[c].qlog = <<sample_query(100)>>
        /\ calls[d].op = "http_get_sample_data"
        /\ calls[d].request = Some([given |-> TRUE, int |-> Some(0)])
        /\ calls[d].qlog = <<sample_query(1)>>
        /\ calls[d].pc = "done"
        /\ calls[d].response[1].status = 200

(***************************************************************************)
(* Health probe.                                                           *)
(***************************************************************************)
\* The failures of the data store and of its set-up (lines 117-136, 341-352).
DataStoreFailures ==
    {MissingCosmosEndpoint, ContainerNotInitialized, StoreFailure}

\* C13: the health probe reports the two collaborators separately.  The
\* overall status is "healthy" exactly when both components are "healthy",
\* and "degraded" otherwise; the azure_openai component is "healthy" or
\* "not initialized"; and the cosmos_db component is either "healthy" or "unhealthy: " followed by a failure of the data
\* store itself, never by a failure of the completion service's set-up.
C13_ComponentsIndependent ==
    \A c \in Calls :
        LET call == calls[c]
        IN  (call.op = "http_health_check" /\ call.pc = "done"
             /\ call.response[1].status = 200)
            => LET body == call.response[1].body
               IN  /\ body.status \in {"healthy", "degraded"}
                   /\ body.status = "healthy"
                         <=> (body.cosmos_db = "healthy"
                              /\ body.azure_openai = "healthy")
                   /\ body.azure_openai \in {"healthy", "not initialized"}
                   /\ body.cosmos_db \in
                         {"healthy"} \cup
                         {"unhealthy: " \o e.msg : e \in DataStoreFailures}

(***************************************************************************)
(* Start-up seed.                                                          *)
(***************************************************************************)
\* Call c stores one more demonstration record in this step: its
\* create_item returns inside initialize_sample_data.
SeedInserts(c) ==
    /\ calls[c].op = "initialize_sample_data"
    /\ calls[c].pc = "create_item"
    /\ store'.seed = store.seed + 1
    /\ calls'[c].uploaded_count = calls[c].uploaded_count + 1

\* C14: the start-up seed inserts the demonstration set only into a store
\* that holds no data, whatever uploads or other seed runs are interleaved
\* with it: whenever a seed run stores a demonstration record, the store
\* holds nothing but the records this same run has stored so far (no uploaded
\* record, no demonstration record of another run), and the store never
\* holds more demonstration records than one set has.
C14_SeedOnlyIntoEmptyStore ==
    /\ [][\A c \in Calls :
            SeedInserts(c) => /\ store.user = 0
                              /\ store.seed = calls[c].uploaded_count]_vars
    /\ [](store.seed <= Len(sample_records))

(***************************************************************************)
(* The stages of one pipeline call.                                        *)
(***************************************************************************)
\* The texts generate_sql_query can return: the sanitized completions.
SanitizedCompletions == {sanitize(x) : x \in Completions}

\* The call failed: it returned the failure outcome.
Failed(c) == HasOutcome(c) /\ ~ OutcomeOf(c).success

\* C15: inside one call of process_natural_language_query the stages run one
\* after the other, each at most once.  The completion service is called at
\* most once and the data store is queried at most once; the store is never
\* queried while the completion is outstanding or before it has returned, and
\* the text it is queried with is the sanitized completion, which has passed
\* the guard; a call that failed in the generation stage has never queried
\* the store, and no failed call has attempted a stage twice.
C15_StagesInSequenceOnce ==
    \A c \in Calls :
        LET call == calls[c]
        IN  call.op \in TextToSqlOps
            => /\ call.n_create <= 1
               /\ call.n_query <= 1
               /\ call.n_query = Len(call.qlog)
               /\ call.pc = "create"
                     => call.n_create = 1 /\ call.n_query = 0
               /\ call.fn \in {"none", "generate_sql_query"}
                     => call.n_query = 0 /\ call.sql_query = None
               /\ call.n_query = 1
                     => /\ call.n_create = 1
                        /\ call.fn = "execute_query"
                        /\ call.sql_query # None
                        /\ call.sql_query[1] \in SanitizedCompletions
                        /\ guard_passes(call.sql_query[1])
                        /\ call.qlog = <<call.sql_query[1]>>
               /\ call.pc = "query_items" => call.n_query = 1
               /\ (Failed(c) /\ call.fn = "generate_sql_query")
                     => call.n_query = 0
               /\ (Failed(c) /\ call.fn = "execute_query")
                     => call.n_create = 1
               /\ (HasOutcome(c) /\ OutcomeOf(c).success)
                     => call.n_create = 1 /\ call.n_query = 1

\* One call failed in the generation stage after its only completion call
\* and never queried the store; another one went through both stages, once
\* each.
C15_Witness ==
    \E c, d \in Calls :
        /\ Failed(c)
        /\ calls[c].fn = "generate_sql_query"
        /\ calls[c].n_create = 1
        /\ calls[c].n_query = 0
        /\ HasOutcome(d)
        /\ OutcomeOf(d).success
        /\ calls[d].fn = "execute_query"
        /\ calls[d].n_create = 1
        /\ calls[d].n_query = 1

(***************************************************************************)
(* The lazy initialization gate.                                           *)
(***************************************************************************)
\* The calls suspended inside _setup_openai_client, at the awaited get_token:
\* each of them found the flag false and has run _setup_cosmos_client.
InSetup == {c \in Calls : calls[c].pc = "get_token"}

\* C16: the gate does not keep a second call out of the set-up.  The flag
\* _initialized is true only once both set-up steps have finished, so the
\* processor then holds all four handles; in particular the flag is still
\* false while the first call that entered the set-up is suspended in it, and
\* every call suspended in the set-up has passed the flag check and has run
\* _setup_cosmos_client once, however many calls are suspended there.  The
\* state that follows from this, two calls inside the set-up at once, is
\* C16_Witness.
C16_FlagSetOnlyAfterSetup ==
    /\ processor._initialized
          => /\ processor.cosmos_client # None
             /\ processor.database # None
             /\ processor.container # None
             /\ processor.openai_client # None
    /\ (InSetup # {} /\ processor.openai_client = None)
          => ~ processor._initialized
    /\ \A c \in InSetup :
          /\ calls[c].n_setup = 1
          /\ processor.container # None
    /\ \A c \in Calls : calls[c].n_setup <= 1

\* Two calls have both found the flag false and both run the set-up: each
\* has assigned the data-store handles (line 124 onwards), the later one
\* replacing those of the earlier one while it was suspended at get_token,
\* and both are now awaiting a token.
C16_Witness ==
    /\ InSetup = Calls
    /\ \A c \in Calls : calls[c].n_setup = 1
    /\ ~ processor._initialized
    /\ processor.cosmos_client # None

=============================================================================
